---- MODULE Spec2Model ----
(***************************************************************************)
(* teatime: the request / request_json / autopagination flows of           *)
(* ApiClient and JsonApiClient (src/src/lib.rs) over SimpleHttpClient,     *)
(* with the Gitlab binding's Link-header continuation                      *)
(* (src/src/gitlab/mod.rs), and the login of the Gitlab, Sensu and Vault   *)
(* bindings.                                                               *)
(*                                                                         *)
(* Strings are sequences of one-character strings.  Option<T> is a         *)
(* sequence of length 0 (None) or 1 (Some(x)).  Result<T> is a record      *)
(* [ok, val, err].                                                         *)
(***************************************************************************)
EXTENDS Naturals, Sequences, FiniteSets

VARIABLES
    base_uri,       \* GitlabClient.base_uri : Uri
    token,          \* GitlabClient.token : Option<TokenType>
    request,        \* SimpleHttpClient.request : Option<Request>
    response_fut,   \* SimpleHttpClient.response_fut : Option<FutureResponse>
    net,            \* transport: exchanges dispatched and not yet handed back
    pc,             \* position of the caller inside the running operation
    call,           \* the running operation and its arguments
    target,         \* `uri` argument of the request() call in progress
    response,       \* Option<Response>: the response held by the operation
    page,           \* Option<Uri>: last result of next_page_uri
    vec,            \* autopagination's accumulator Vec<Value>
    result,         \* Option<Result>: what the operation returned
    sent,           \* history: requests handed to the transport, in order
    rcvd,           \* history: responses handed back by response(), in order
    nreq,           \* history: number of request() calls of the operation
    conts,          \* history: continuation URIs next_page_uri has yielded
    binding,        \* which binding the client is: "gitlab", "sensu", "vault"
    token_before,   \* history: `token` when the running operation was called
    rin,            \* resolver harness: inputs [b1, b2, t]
    rout            \* resolver harness: Option<<<r1, r2>>>

vars == <<base_uri, token, request, response_fut, net, pc, call, target,
          response, page, vec, result, sent, rcvd, nreq, conts, binding,
          token_before, rin, rout>>

clientVars == <<base_uri, token, request, response_fut, net, pc, call, target,
                response, page, vec, result, sent, rcvd, nreq, conts, binding,
                token_before>>

harnessVars == <<rin, rout>>

----------------------------------------------------------------------------
(* Bounds *)

\* Longest target string the resolver harness enumerates.
MaxTargetLen == 5

\* Most request() calls one operation may make before the server stops
\* declaring continuations.
MaxRequests == 3

----------------------------------------------------------------------------
(* Option and Result *)

None == <<>>

Some(x) == <<x>>

is_some(o) == Len(o) = 1

unwrap(o) == o[1]

Ok(v) == [ok |-> TRUE, val |-> <<v>>, err |-> <<>>]

\* ClientError(String): `text` is the fixed part of the message and `raw`
\* the text formatted into it.
ClientError(text, raw) == [text |-> text, raw |-> raw]

Err(e) == [ok |-> FALSE, val |-> <<>>, err |-> <<e>>]

\* panic!(msg): the call does not return; the thread unwinds.
Panic(msg) == [ok |-> FALSE, val |-> <<>>, err |-> <<[panic |-> msg]>>]

panicked(res) == ~res.ok /\ "panic" \in DOMAIN unwrap(res.err)

----------------------------------------------------------------------------
(* Strings *)

RECURSIVE find_from(_, _, _)
find_from(s, pat, i) ==
    IF i + Len(pat) - 1 > Len(s) THEN 0
    ELSE IF SubSeq(s, i, i + Len(pat) - 1) = pat THEN i
    ELSE find_from(s, pat, i + 1)

\* str::find: 1-based position of the first occurrence, 0 when there is none.
find(s, pat) == find_from(s, pat, 1)

contains(s, pat) == find(s, pat) # 0

ends_with(s, pat) ==
    /\ Len(s) >= Len(pat)
    /\ SubSeq(s, Len(s) - Len(pat) + 1, Len(s)) = pat

\* All strings over alphabet A of length 1..n.
RECURSIVE StringsUpTo(_, _)
StringsUpTo(A, n) ==
    IF n = 0 THEN {}
    ELSE LET shorter == StringsUpTo(A, n - 1)
         IN  {<<c>> : c \in A} \cup shorter \cup
             {Append(s, c) : s \in {x \in shorter : Len(x) = n - 1}, c \in A}

----------------------------------------------------------------------------
(* hyper::Uri as used by lib.rs: FromStr, is_absolute, as_ref, to_string *)

Uri(source, scheme_end, authority_end) ==
    [source |-> source, scheme_end |-> scheme_end, authority_end |-> authority_end]

\* Offset (0-based) just past the authority: the first '/', '?' or '#' after
\* "://", or the end of the string.
RECURSIVE authority_end_from(_, _)
authority_end_from(s, i) ==
    IF i > Len(s) THEN Len(s)
    ELSE IF s[i] \in {"/", "?", "#"} THEN i - 1
    ELSE authority_end_from(s, i + 1)

parse_authority(s) ==
    LET p == find(s, <<":", "/", "/">>)
    IN  authority_end_from(s, IF p = 0 THEN 1 ELSE p + 3)

\* str::parse::<Uri>(): asterisk-form, origin-form, absolute-form (with a
\* path inserted after a bare authority) or authority-form.
parse_Uri(s) ==
    IF Len(s) = 0 THEN Err(ClientError("empty Uri string", <<>>))
    ELSE IF s = <<"*">> THEN Ok(Uri(s, None, None))
    ELSE IF s = <<"/">> THEN Ok(Uri(s, None, None))
    ELSE IF s[1] = "/" THEN Ok(Uri(s, None, None))
    ELSE IF contains(s, <<":", "/", "/">>) THEN
        LET scheme_end == find(s, <<":">>) - 1
            auth_end   == parse_authority(s)
            authority  == SubSeq(s, scheme_end + 4, auth_end)
            with_path  == IF Len(s) = auth_end \/ s[auth_end + 1] # "/"
                          THEN SubSeq(s, 1, auth_end) \o <<"/">>
                               \o SubSeq(s, auth_end + 1, Len(s))
                          ELSE s
        IN  IF scheme_end + 3 = auth_end
            THEN Err(ClientError("absolute Uri missing authority segment", <<>>))
            ELSE IF contains(authority, <<"[">>) # contains(authority, <<"]">>)
            THEN Err(ClientError("invalid character in Uri authority", <<>>))
            ELSE Ok(Uri(with_path, Some(scheme_end), Some(auth_end)))
    ELSE IF contains(s, <<"/">>) \/ contains(s, <<"?">>)
        THEN Err(ClientError("invalid character in Uri authority", <<>>))
    ELSE Ok(Uri(s, None, Some(Len(s))))

is_absolute(uri) == is_some(uri.scheme_end)

\* Uri::scheme.
scheme(uri) ==
    IF is_some(uri.scheme_end)
    THEN Some(SubSeq(uri.source, 1, unwrap(uri.scheme_end)))
    ELSE None

\* Uri::authority.
authority(uri) ==
    IF is_some(uri.authority_end)
    THEN Some(SubSeq(uri.source,
                     IF is_some(uri.scheme_end) THEN unwrap(uri.scheme_end) + 4 ELSE 1,
                     unwrap(uri.authority_end)))
    ELSE None

\* A character whose UTF-8 encoding takes two bytes.
TwoByteChar == "U+00E9"

utf8_len(c) == IF c = TwoByteChar THEN 2 ELSE 1

\* str::is_char_boundary(n): byte offset n falls between two characters.
RECURSIVE is_char_boundary(_, _)
is_char_boundary(s, n) ==
    \/ n = 0
    \/ /\ Len(s) > 0
       /\ utf8_len(s[1]) <= n
       /\ is_char_boundary(Tail(s), n - utf8_len(s[1]))

as_ref(uri) == uri.source

to_string(uri) == uri.source

\* Mutant: joins every target onto the base, absolute or not.
full_uri_always_join(base, uri) ==
    LET s    == as_ref(uri)
        rest == IF SubSeq(s, 1, 1) = <<"/">> THEN SubSeq(s, 2, Len(s)) ELSE s
        b    == to_string(base)
    IN  parse_Uri((IF ends_with(b, <<"/">>) THEN b ELSE Append(b, "/")) \o rest)

\* Mutant: a relative target that is empty once its leading separator is
\* stripped is rejected.
full_uri_reject_empty(base, uri) ==
    IF ~is_absolute(uri) THEN
        LET s == as_ref(uri)
            no_leading_slash_uri ==
                IF SubSeq(s, 1, 1) = <<"/">> THEN SubSeq(s, 2, Len(s)) ELSE s
            b == to_string(base)
            base_string == IF ~ends_with(b, <<"/">>) THEN Append(b, "/") ELSE b
        IN  IF no_leading_slash_uri = <<>> THEN Err("InvalidTarget")
            ELSE parse_Uri(base_string \o no_leading_slash_uri)
    ELSE Ok(uri)

\* Mutant: strips every leading separator of the target.
RECURSIVE strip_all_leading(_)
strip_all_leading(s) ==
    IF Len(s) > 0 /\ s[1] = "/" THEN strip_all_leading(SubSeq(s, 2, Len(s))) ELSE s

full_uri_strip_all(base, uri) ==
    IF ~is_absolute(uri) THEN
        LET b == to_string(base)
        IN  parse_Uri((IF ends_with(b, <<"/">>) THEN b ELSE Append(b, "/"))
                      \o strip_all_leading(as_ref(uri)))
    ELSE Ok(uri)

\* ApiClient::request, the computation of `full_uri`.
full_uri(base, uri) ==
    IF ~is_absolute(uri) THEN
        LET s == as_ref(uri)
            no_leading_slash_uri ==
                IF SubSeq(s, 1, 1) = <<"/">> THEN SubSeq(s, 2, Len(s)) ELSE s
            b == to_string(base)
            base_string == IF ~ends_with(b, <<"/">>) THEN Append(b, "/") ELSE b
            uri_concat == base_string \o no_leading_slash_uri
        IN  IF ~is_char_boundary(s, 1)
            THEN Panic("byte index 1 is not a char boundary")
            ELSE parse_Uri(uri_concat)
    ELSE Ok(uri)

----------------------------------------------------------------------------
(* serde_json::Value and serde_json::from_slice, for bodies made of        *)
(* numbers, strings without escapes, arrays and objects, without spaces    *)

JNumber(digits) == [t |-> "Number", n |-> digits, a |-> <<>>]

JArray(items) == [t |-> "Array", n |-> <<>>, a |-> items]

JString(chars) == [t |-> "String", n |-> chars, a |-> <<>>]

\* An object is the sequence of its <<key, value>> members as parsed.
JObject(members) == [t |-> "Object", n |-> <<>>, a |-> members]

Quote == "\""

Digits == {"0", "1", "2", "3", "4", "5", "6", "7", "8", "9"}

\* A byte that is not part of any UTF-8 sequence.
NonUtf8Byte == "0xFF"

parsed(v, next) == [ok |-> TRUE, val |-> <<v>>, next |-> next]

syntax_error == [ok |-> FALSE, val |-> <<>>, next |-> 0]

RECURSIVE digits_end(_, _)
digits_end(s, i) ==
    IF i <= Len(s) /\ s[i] \in Digits THEN digits_end(s, i + 1) ELSE i

\* The index of the quote that closes the string opened before i, or 0.
RECURSIVE string_end(_, _)
string_end(s, i) ==
    IF i > Len(s) THEN 0
    ELSE IF s[i] = Quote THEN i
    ELSE string_end(s, i + 1)

\* A string literal at i.
parse_string(s, i) ==
    IF i > Len(s) \/ s[i] # Quote THEN syntax_error
    ELSE LET e == string_end(s, i + 1)
         IN  IF e = 0 THEN syntax_error
             ELSE parsed(JString(SubSeq(s, i + 1, e - 1)), e + 1)

RECURSIVE parse_value(_, _), parse_elements(_, _, _), parse_members(_, _, _)
parse_value(s, i) ==
    IF i > Len(s) THEN syntax_error
    ELSE IF s[i] \in Digits THEN
        LET e == digits_end(s, i)
        IN  IF s[i] = "0" /\ e > i + 1 THEN syntax_error
            ELSE parsed(JNumber(SubSeq(s, i, e - 1)), e)
    ELSE IF s[i] = "[" THEN
        IF i + 1 <= Len(s) /\ s[i + 1] = "]" THEN parsed(JArray(<<>>), i + 2)
        ELSE parse_elements(s, i + 1, <<>>)
    ELSE IF s[i] = Quote THEN parse_string(s, i)
    ELSE IF s[i] = "{" THEN
        IF i + 1 <= Len(s) /\ s[i + 1] = "}" THEN parsed(JObject(<<>>), i + 2)
        ELSE parse_members(s, i + 1, <<>>)
    ELSE syntax_error

parse_members(s, i, acc) ==
    LET k == parse_string(s, i)
    IN  IF ~k.ok \/ k.next > Len(s) \/ s[k.next] # ":" THEN syntax_error
        ELSE
        LET v == parse_value(s, k.next + 1)
            m == <<unwrap(k.val).n, unwrap(v.val)>>
        IN  IF ~v.ok \/ v.next > Len(s) THEN syntax_error
            ELSE IF s[v.next] = "," THEN parse_members(s, v.next + 1, Append(acc, m))
            ELSE IF s[v.next] = "}" THEN parsed(JObject(Append(acc, m)), v.next + 1)
            ELSE syntax_error

parse_elements(s, i, acc) ==
    LET v == parse_value(s, i)
    IN  IF ~v.ok \/ v.next > Len(s) THEN syntax_error
        ELSE IF s[v.next] = "," THEN parse_elements(s, v.next + 1, Append(acc, unwrap(v.val)))
        ELSE IF s[v.next] = "]" THEN parsed(JArray(Append(acc, unwrap(v.val))), v.next + 1)
        ELSE syntax_error

\* Mutant: an empty body decodes to an empty array.
from_slice_empty_is_array(chunk) ==
    LET v == parse_value(chunk, 1)
    IN  IF chunk = <<>> THEN Ok(JArray(<<>>))
        ELSE IF v.ok /\ v.next = Len(chunk) + 1 THEN Ok(unwrap(v.val))
        ELSE Err("serde_json::Error")

\* serde_json::from_slice: one value, then the end of the input.
from_slice(chunk) ==
    LET v == parse_value(chunk, 1)
    IN  IF v.ok /\ v.next = Len(chunk) + 1 THEN Ok(unwrap(v.val))
        ELSE Err("serde_json::Error")

\* Value::get(key): the member of an object with that key (the last one
\* parsed when the key is repeated), None for any other value.
RECURSIVE get_member(_, _, _)
get_member(members, key, i) ==
    IF i = 0 THEN None
    ELSE IF members[i][1] = key THEN Some(members[i][2])
    ELSE get_member(members, key, i - 1)

get(v, key) ==
    IF v.t = "Object" THEN get_member(v.a, key, Len(v.a)) ELSE None

\* Value::as_str.
as_str(v) == IF v.t = "String" THEN Some(v.n) ELSE None

\* str::from_utf8(&chunk).
from_utf8(chunk) ==
    IF \E i \in 1..Len(chunk) : chunk[i] = NonUtf8Byte
    THEN Err("Utf8Error") ELSE Ok(chunk)

\* impl From<serde_json::Error> for ClientError: ClientError::new(e.description()).
From_serde_json_Error(e) == ClientError("JSON error", <<>>)

\* impl From<hyper::Error> for ClientError: ClientError::new(e.description()).
From_hyper_Error(e) == ClientError(e, <<>>)

----------------------------------------------------------------------------
(* hyper::Response as the transport hands it back                          *)

\* headers.link : Option<Raw>, the raw Link header: a sequence of header
\* lines, each a sequence of items; an item is one `<url>; rel="name"`
\* entry or text that is no entry.
\* body : what reading the body yields, Ok(bytes) or a hyper error.
Response(link, body) == [link |-> link, body |-> body]

Entry(url, rel) == [entry |-> TRUE, url |-> url, rel |-> rel]

Junk == [entry |-> FALSE, url |-> <<>>, rel |-> ""]

\* parse_link_header: fold_many1 over entries, inserting (rel -> url) into
\* a HashMap; stops at the first item that is no entry and fails when there
\* is no leading entry.  The map is a function from the names seen to urls.
\* Mutant: the first entry of a relation name is the one kept.
RECURSIVE fold_entries_first_wins(_, _, _)
fold_entries_first_wins(line, i, hm) ==
    IF i > Len(line) \/ ~line[i].entry THEN hm
    ELSE fold_entries_first_wins(line, i + 1,
            [k \in DOMAIN hm \cup {line[i].rel} |->
                IF k \in DOMAIN hm THEN hm[k] ELSE line[i].url])

RECURSIVE fold_entries(_, _, _)
fold_entries(line, i, hm) ==
    IF i > Len(line) \/ ~line[i].entry THEN hm
    ELSE fold_entries(line, i + 1,
            [k \in DOMAIN hm \cup {line[i].rel} |->
                IF k = line[i].rel THEN line[i].url ELSE hm[k]])

parse_link_header(line) ==
    IF Len(line) = 0 \/ ~line[1].entry THEN Err("nom::Err")
    ELSE Ok(fold_entries(line, 1, <<>>))

\* HashMap::remove(key) as used to fill a Link field.
remove(hm, key) == IF key \in DOMAIN hm THEN Some(hm[key]) ELSE None

Link(previous, next, first, last) ==
    [previous |-> previous, next |-> next, first |-> first, last |-> last]

\* impl Header for Link: parse_header.  A header value that is not UTF-8 is
\* a line that holds no entry.
parse_header(raw) ==
    IF Len(raw) # 1 THEN Err("hyper::Error::Header")
    ELSE LET r == parse_link_header(raw[1])
         IN  IF ~r.ok THEN Err("hyper::Error::Header")
             ELSE LET hm == unwrap(r.val)
                  IN  Ok(Link(remove(hm, "prev"), remove(hm, "next"),
                              remove(hm, "first"), remove(hm, "last")))

Whitespace == {" ", "\t", "\r", "\n"}

\* ws!: the white space before a token is skipped.
RECURSIVE skip_ws(_, _)
skip_ws(s, i) ==
    IF i <= Len(s) /\ s[i] \in Whitespace THEN skip_ws(s, i + 1) ELSE i

\* tag!(pat) at position i.
tag(s, pat, i) ==
    /\ i + Len(pat) - 1 <= Len(s)
    /\ SubSeq(s, i, i + Len(pat) - 1) = pat

Str_rel_eq_quote == <<"r", "e", "l", "=", Quote>>

Str_prev == <<"p", "r", "e", "v">>

Str_next == <<"n", "e", "x", "t">>

Str_first == <<"f", "i", "r", "s", "t">>

Str_last == <<"l", "a", "s", "t">>

\* The key of the HashMap an entry is inserted under; the keys that are
\* never looked up are one key.
hm_key(position) ==
    CASE position = Str_prev -> "prev"
      [] position = Str_next -> "next"
      [] position = Str_first -> "first"
      [] position = Str_last -> "last"
      [] OTHER -> "other"

\* parse_link_header, the do_parse! under ws!, on the text from position i:
\* an optional ",", "<", the link up to ">;", ">;", `rel="`, the position
\* up to the next quote, and the quote.
parse_entry(s, i) ==
    LET a == skip_ws(s, i)
        b == IF tag(s, <<",">>, a) THEN skip_ws(s, a + 1) ELSE a
        c == skip_ws(s, b + 1)
        d == find_from(s, <<">", ";">>, c)
        e == skip_ws(s, d + 2)
        f == skip_ws(s, e + Len(Str_rel_eq_quote))
        g == find_from(s, <<Quote>>, f)
    IN  IF /\ tag(s, <<"<">>, b)
           /\ d # 0
           /\ tag(s, Str_rel_eq_quote, e)
           /\ g # 0
        THEN [ok |-> TRUE, item |-> Entry(SubSeq(s, c, d - 1), hm_key(SubSeq(s, f, g - 1))),
              rest |-> skip_ws(s, g + 1)]
        ELSE [ok |-> FALSE, item |-> Junk, rest |-> i]

\* The text of a header value as fold_many1 meets it: entry after entry, up
\* to the end of the text or to text that is no entry.
RECURSIVE entries_of(_, _)
entries_of(s, i) ==
    IF i > Len(s) THEN <<>>
    ELSE LET e == parse_entry(s, i)
         IN  IF e.ok THEN <<e.item>> \o entries_of(s, e.rest) ELSE <<Junk>>

\* resp.headers().get::<Link>(): None when the header is absent or when
\* parse_header fails.
headers_get_Link(resp) ==
    IF ~is_some(resp.link) THEN None
    ELSE LET r == parse_header(unwrap(resp.link))
         IN  IF r.ok THEN r.val ELSE None

\* impl HasNextLink for Option<&Link>: has_next.
has_next(link_option) ==
    IF is_some(link_option) THEN is_some(unwrap(link_option).next) ELSE FALSE

\* impl HasNextLink for Option<&Link>: next.
next(link_option) ==
    IF is_some(link_option) THEN
        IF is_some(unwrap(link_option).next)
        THEN parse_Uri(unwrap(unwrap(link_option).next)).val
        ELSE None
    ELSE None

\* Mutant: a response without a Link header is an error.
next_page_uri_requires_header(resp) ==
    IF ~is_some(resp.link) THEN Err(ClientError("missing Link header", <<>>))
    ELSE Ok(next(headers_get_Link(resp)))

\* impl JsonApiClient for GitlabClient: next_page_uri.
next_page_uri(resp) ==
    LET link_option == headers_get_Link(resp)
    IN  Ok(next(link_option))

----------------------------------------------------------------------------
(* SimpleHttpClient: impl HttpClient.  h = [request, response_fut]; every  *)
(* method returns the client after the call and the call's Result.         *)

Unit == "()"

\* hyper::Request::new(method, uri).
Request(method, uri) == [method |-> method, uri |-> uri, headers |-> {}, body |-> None]

\* Headers::set: a header replaces the one of the same name.
headers_set(headers, header) ==
    {x \in headers : x[1] # header[1]} \cup {header}

\* Mutant: the request is always built as a GET.
request_init_get(h, method, uri) ==
    [http |-> [h EXCEPT !.request = Some(Request("Get", uri))], res |-> Ok(Unit)]

\* SimpleHttpClient::request_init.
request_init(h, method, uri) ==
    [http |-> [h EXCEPT !.request = Some(Request(method, uri))], res |-> Ok(Unit)]

\* ApiClient::set_request_attributes of the Gitlab binding: the parameters
\* become the JSON body.
set_request_attributes(req, params) ==
    Ok([req EXCEPT !.body = params,
                   !.headers = headers_set(@, <<"Content-Type", "application/json">>)])

request_attributes(h, params) ==
    IF is_some(h.request) THEN
        IF is_some(params) THEN
            LET r == set_request_attributes(unwrap(h.request), params)
            IN  IF r.ok THEN [http |-> [h EXCEPT !.request = r.val], res |-> Ok(Unit)]
                ELSE [http |-> h, res |-> r]
        ELSE [http |-> h, res |-> Ok(Unit)]
    ELSE [http |-> h,
          res |-> Err(ClientError("Request not initialized, cannot set parameters", <<>>))]

\* Mutant: without a request the header is dropped and the call succeeds.
set_request_header_unchecked(h, header) ==
    IF is_some(h.request) THEN
        [http |-> [h EXCEPT !.request =
                      Some([unwrap(@) EXCEPT !.headers = headers_set(@, header)])],
         res |-> Ok(Unit)]
    ELSE [http |-> h, res |-> Ok(Unit)]

set_request_header(h, header) ==
    IF is_some(h.request) THEN
        [http |-> [h EXCEPT !.request =
                      Some([unwrap(@) EXCEPT !.headers = headers_set(@, header)])],
         res |-> Ok(Unit)]
    ELSE [http |-> h,
          res |-> Err(ClientError("Request not initialized, cannot set header", <<>>))]

\* Mutant: the request is handed to the transport a second time.
make_request_retry(h) ==
    IF is_some(h.request) THEN
        [http |-> [h EXCEPT !.request = None, !.response_fut = h.request],
         res |-> Ok(Unit), dispatched |-> <<unwrap(h.request), unwrap(h.request)>>]
    ELSE [http |-> h, dispatched |-> <<>>,
          res |-> Err(ClientError("Request not initialized, cannot make request", <<>>))]

\* Mutant: the request is handed to the transport but not taken.
make_request_keeps_request(h) ==
    IF is_some(h.request) THEN
        [http |-> [h EXCEPT !.response_fut = h.request],
         res |-> Ok(Unit), dispatched |-> <<unwrap(h.request)>>]
    ELSE [http |-> h, dispatched |-> <<>>,
          res |-> Err(ClientError("Request not initialized, cannot make request", <<>>))]

\* make_request: self.request.take() is handed to https_client.request;
\* `dispatched` is what the transport was given.
make_request(h) ==
    IF is_some(h.request) THEN
        [http |-> [h EXCEPT !.request = None, !.response_fut = h.request],
         res |-> Ok(Unit), dispatched |-> <<unwrap(h.request)>>]
    ELSE [http |-> h, dispatched |-> <<>>,
          res |-> Err(ClientError("Request not initialized, cannot make request", <<>>))]

\* Mutant: the future is read without being taken, and stays outstanding.
http_response_keeps_future(h, inflight, outcome) ==
    IF is_some(h.response_fut) THEN
        [http |-> h, net |-> inflight,
         res |-> IF outcome.ok THEN outcome
                 ELSE Err(From_hyper_Error(unwrap(outcome.err)))]
    ELSE [http |-> h, net |-> inflight,
          res |-> Err(ClientError("No request sent, get response", <<>>))]

\* response: self.response_fut.take() is run to completion by
\* evaluate_future; `outcome` is what the round trip yields and `inflight`
\* the exchanges the transport holds.
http_response(h, inflight, outcome) ==
    IF is_some(h.response_fut) THEN
        [http |-> [h EXCEPT !.response_fut = None], net |-> Tail(inflight),
         res |-> IF outcome.ok THEN outcome
                 ELSE Err(From_hyper_Error(unwrap(outcome.err)))]
    ELSE [http |-> h, net |-> inflight,
          res |-> Err(ClientError("No request sent, get response", <<>>))]

\* HttpClient::response_to_body: evaluate_future(resp.body().concat2()).
response_to_body(resp) ==
    IF resp.body.ok THEN Ok(unwrap(resp.body.val))
    ELSE Err(ClientError(unwrap(resp.body.err), <<>>))

----------------------------------------------------------------------------
(* GitlabClient and the default methods of ApiClient and JsonApiClient     *)

Oauth(t) == [kind |-> "Oauth", t |-> t]

PersonalAccess(t) == [kind |-> "PersonalAccess", t |-> t]

\* Mutant: every token is sent as a bearer token.
auth_header_always_bearer(tok) ==
    IF is_some(tok) THEN Some(<<"Authorization", <<"Bearer", unwrap(tok).t>>>>)
    ELSE None

\* The authentication header the token selects: Authorization(Bearer) for
\* an OAuth token, PrivateToken for a personal access token, none without
\* a token.
auth_header(tok) ==
    IF is_some(tok) /\ unwrap(tok).kind = "Oauth"
    THEN Some(<<"Authorization", <<"Bearer", unwrap(tok).t>>>>)
    ELSE IF is_some(tok) /\ unwrap(tok).kind = "PersonalAccess"
    THEN Some(<<"Private-Token", <<unwrap(tok).t>>>>)
    ELSE None

\* ApiClient::set_api_headers of the Gitlab binding: the header the token
\* kind selects.
set_api_headers(h, tok) ==
    IF is_some(auth_header(tok))
    THEN set_request_header(h, unwrap(auth_header(tok)))
    ELSE [http |-> h, res |-> Ok(Unit)]

\* ApiClient::request up to and including make_request.
request_send(h, base, tok, method, uri, params) ==
    LET resolved == full_uri(base, uri)
    IN  IF ~resolved.ok THEN [http |-> h, res |-> resolved, dispatched |-> <<>>]
        ELSE
        LET h1 == request_init(h, method, unwrap(resolved.val))
        IN  IF ~h1.res.ok THEN [http |-> h1.http, res |-> h1.res, dispatched |-> <<>>]
            ELSE
            LET h2 == request_attributes(h1.http, params)
            IN  IF ~h2.res.ok THEN [http |-> h2.http, res |-> h2.res, dispatched |-> <<>>]
                ELSE
                LET h3 == set_api_headers(h2.http, tok)
                IN  IF ~h3.res.ok
                    THEN [http |-> h3.http, res |-> h3.res, dispatched |-> <<>>]
                    ELSE make_request(h3.http)

\* JsonApiClient::response_to_json.
response_to_json(resp) ==
    LET chunk == response_to_body(resp)
    IN  IF ~chunk.ok THEN chunk
        ELSE
        LET json == from_slice(unwrap(chunk.val))
        IN  IF json.ok THEN json
            ELSE IF ~from_utf8(unwrap(chunk.val)).ok
            THEN Err(ClientError("API seems to have returned non-UTF8 garbage", <<>>))
            ELSE Err(ClientError("Failed to parse JSON: ", unwrap(chunk.val)))

\* Mutant: pages are put at the front of the accumulator.
autopagination_page_prepend(acc, resp) ==
    LET json == response_to_json(resp)
    IN  IF ~json.ok THEN json ELSE Ok(<<unwrap(json.val)>> \o acc)

\* Mutant: a page that does not decode is skipped and the walk goes on.
autopagination_page_skip(acc, resp) ==
    LET json == response_to_json(resp)
    IN  IF ~json.ok THEN Ok(acc) ELSE Ok(Append(acc, unwrap(json.val)))

\* JsonApiClient::autopagination, the loop body before the next request:
\* decode the page in hand and push it.
autopagination_page(acc, resp) ==
    LET json == response_to_json(resp)
    IN  IF ~json.ok THEN json ELSE Ok(Append(acc, unwrap(json.val)))

\* Mutant: a last page that does not decode returns the pages so far.
autopagination_finish_partial(acc, resp) ==
    LET chunk == response_to_body(resp)
    IN  IF ~chunk.ok THEN chunk
        ELSE
        LET json == from_slice(unwrap(chunk.val))
        IN  IF ~json.ok THEN Ok(JArray(acc))
            ELSE Ok(JArray(Append(acc, unwrap(json.val))))

\* JsonApiClient::autopagination after the loop: decode the last page with
\* serde_json::from_slice, push it and return the array.
autopagination_finish(acc, resp) ==
    LET chunk == response_to_body(resp)
    IN  IF ~chunk.ok THEN chunk
        ELSE
        LET json == from_slice(unwrap(chunk.val))
        IN  IF ~json.ok THEN Err(From_serde_json_Error(unwrap(json.err)))
            ELSE Ok(JArray(Append(acc, unwrap(json.val))))

----------------------------------------------------------------------------
(* What the caller passes and what the server answers                      *)

Str_s_h_a == <<"s",":","/","/","h","/","a">>

Str_s_g_p == <<"s",":","/","/","g","/","p">>

Str_s_g_q == <<"s",":","/","/","g","/","q">>

\* Base strings the client is constructed with: absolute without and with a
\* trailing separator, and an authority-only one.
ClientBases ==
    { unwrap(parse_Uri(s).val) : s \in {Str_s_h_a, Append(Str_s_h_a, "/"), <<"h">>} }

\* (method, params) pairs; Option<Self::Params> is the string the
\* parameters serialise to.
CallArgs == { <<"Get", None>>, <<"Post", Some(<<"{", "}">>)>> }

CallTargets ==
    { unwrap(parse_Uri(s).val) : s \in {<<"/", "p">>, <<"/">>, Str_s_g_p} }

Ops == {"request", "request_json", "autopagination"}

Calls ==
    { [op |-> o, method |-> m[1], uri |-> u, params |-> m[2]] :
        o \in Ops, m \in CallArgs, u \in CallTargets }

\* Raw Link headers a response may carry.
LinkHeaders ==
    { None,
      Some(<< <<Junk>> >>),
      Some(<< <<Entry(Str_s_g_q, "next")>>, <<Entry(Str_s_g_q, "next")>> >>),
      Some(<< <<Entry(Str_s_g_p, "prev")>> >>),
      Some(<< <<Entry(Str_s_g_p, "other")>> >>),
      Some(<< <<Entry(Str_s_g_q, "next")>> >>),
      Some(<< <<Entry(Str_s_g_p, "prev"), Entry(<<"/", "q">>, "next"), Junk>> >>),
      Some(<< <<Entry(<<>>, "next")>> >>),
      Some(<< <<Entry(Str_s_g_q, "next"), Entry(<<>>, "next")>> >>) }

\* What reading a response body yields.
Bodies ==
    { Ok(<<"1">>), Ok(<<"[", "2", "]">>), Ok(<<>>), Ok(<<"x">>),
      Ok(<<"1", NonUtf8Byte>>), Err("hyper::Error::Incomplete") }

\* What one round trip yields: a response, or a transport error.
Outcomes ==
    { Ok(Response(l, b)) : l \in LinkHeaders, b \in Bodies } \cup {Err("hyper::Error::Io")}

\* The response continues the walk and its page can be pushed.
Continues(o) ==
    /\ o.ok
    /\ is_some(unwrap(next_page_uri(unwrap(o.val)).val))
    /\ response_to_json(unwrap(o.val)).ok

\* The server ends every chain of pages at the MaxRequests-th response.
OutcomesAt(n) == { o \in Outcomes : n < MaxRequests \/ ~Continues(o) }

Str_access_token == <<"a","c","c","e","s","s","_","t","o","k","e","n">>

Str_auth == <<"a","u","t","h">>

Str_client_token == <<"c","l","i","e","n","t","_","t","o","k","e","n">>

\* The characters of the JSON object {"key":value}.
Member(key, value) == <<"{", Quote>> \o key \o <<Quote, ":">> \o value \o <<"}">>

\* Bodies a login endpoint may answer with: the token as a string where
\* the binding looks for it, a number in its place, objects without it, a
\* value that is no object, and text that is no JSON.
LoginBodies ==
    { Ok(Member(Str_access_token, <<Quote, "t", Quote>>)),
      Ok(Member(Str_access_token, <<"1">>)),
      Ok(Member(Str_auth, Member(Str_client_token, <<Quote, "t", Quote>>))),
      Ok(Member(Str_auth, Member(Str_client_token, <<"1">>))),
      Ok(Member(Str_auth, <<"{", "}">>)),
      Ok(<<"{", "}">>),
      Ok(<<"1">>),
      Ok(<<"x">>),
      Ok(<<>>),
      Err("hyper::Error::Incomplete") }

LoginOutcomes ==
    { Ok(Response(None, b)) : b \in LoginBodies } \cup {Err("hyper::Error::Io")}

\* What the round trip of the n-th request of operation `o` may yield.
OutcomesFor(o, n) == IF o = "login" THEN LoginOutcomes ELSE OutcomesAt(n)

----------------------------------------------------------------------------
(* The client as a state machine: one operation at a time, each blocking   *)
(* call of its code a step                                                 *)

\* GitlabClient::new: no token, no request, nothing in flight.
Init ==
    /\ base_uri \in ClientBases
    /\ token = None
    /\ request = None
    /\ response_fut = None
    /\ net = <<>>
    /\ pc = "idle"
    /\ call = None
    /\ target = None
    /\ response = None
    /\ page = None
    /\ vec = <<>>
    /\ result = None
    /\ sent = <<>>
    /\ rcvd = <<>>
    /\ nreq = 0
    /\ conts = <<>>
    /\ binding = "gitlab"
    /\ token_before = None
    /\ rin = [b1 |-> base_uri, b2 |-> base_uri, t |-> base_uri]
    /\ rout = None

\* The operation returns Err(e): its locals are dropped.
Fail(e) ==
    /\ pc' = "done"
    /\ result' = Some(Err(e))
    /\ response' = None
    /\ page' = None
    /\ vec' = <<>>

\* A new operation starts: the locals and the history of the previous one
\* are gone.
Enter ==
    /\ pc \in {"idle", "done"}
    /\ response' = None
    /\ page' = None
    /\ vec' = <<>>
    /\ sent' = <<>>
    /\ rcvd' = <<>>
    /\ nreq' = 0
    /\ conts' = <<>>
    /\ token_before' = token
    /\ UNCHANGED <<base_uri, request, response_fut, net, binding, harnessVars>>

\* The caller invokes request, request_json or autopagination with one of
\* the calls in S.
CallFrom(S) ==
    /\ binding = "gitlab"
    /\ Enter
    /\ \E c \in S :
        /\ call' = Some(c)
        /\ target' = Some(c.uri)
    /\ pc' = "request"
    /\ result' = None
    /\ UNCHANGED token

Call == CallFrom(Calls)

\* ApiClient::request: resolve the target, initialise and decorate the
\* request, hand it to the transport.
request_dispatch ==
    /\ pc = "request"
    /\ LET c == unwrap(call)
           s == request_send([request |-> request, response_fut |-> response_fut],
                             base_uri, token, c.method, unwrap(target), c.params)
       IN  /\ request' = s.http.request
           /\ response_fut' = s.http.response_fut
           /\ net' = net \o s.dispatched
           /\ sent' = sent \o s.dispatched
           /\ nreq' = nreq + 1
           /\ IF s.res.ok
              THEN pc' = "response" /\ UNCHANGED <<result, response, page, vec>>
              ELSE IF panicked(s.res)
              THEN pc' = "abort" /\ UNCHANGED <<result, response, page, vec>>
              ELSE Fail(unwrap(s.res.err))
    /\ UNCHANGED <<base_uri, token, call, target, rcvd, conts, harnessVars,
                   binding, token_before>>

\* Mutant: a failed round trip also forgets the token.
request_response_forgets_token ==
    /\ pc = "response"
    /\ \E o \in OutcomesFor(unwrap(call).op, nreq) :
        LET r == http_response([request |-> request, response_fut |-> response_fut], net, o)
            op == unwrap(call).op
        IN  /\ request' = r.http.request
            /\ response_fut' = r.http.response_fut
            /\ net' = r.net
            /\ IF ~r.res.ok
               THEN Fail(unwrap(r.res.err)) /\ UNCHANGED rcvd /\ token' = None
               ELSE /\ rcvd' = Append(rcvd, unwrap(r.res.val))
                    /\ page' = None
                    /\ vec' = vec
                    /\ token' = token
                    /\ IF op = "request"
                       THEN pc' = "done" /\ result' = Some(r.res) /\ response' = None
                       ELSE /\ pc' = IF op = "autopagination" THEN "next_page" ELSE "to_json"
                            /\ result' = result
                            /\ response' = r.res.val
    /\ UNCHANGED <<base_uri, call, target, sent, nreq, conts, harnessVars,
                   binding, token_before>>

\* ApiClient::request, its last line: http_client.response() blocks until
\* the round trip ends.  request() returns to the operation that called it.
request_response ==
    /\ pc = "response"
    /\ \E o \in OutcomesFor(unwrap(call).op, nreq) :
        LET r == http_response([request |-> request, response_fut |-> response_fut], net, o)
            op == unwrap(call).op
        IN  /\ request' = r.http.request
            /\ response_fut' = r.http.response_fut
            /\ net' = r.net
            /\ IF ~r.res.ok
               THEN Fail(unwrap(r.res.err)) /\ UNCHANGED rcvd
               ELSE /\ rcvd' = Append(rcvd, unwrap(r.res.val))
                    /\ page' = None
                    /\ vec' = vec
                    /\ IF op = "request"
                       THEN pc' = "done" /\ result' = Some(r.res) /\ response' = None
                       ELSE /\ pc' = IF op = "autopagination" THEN "next_page" ELSE "to_json"
                            /\ result' = result
                            /\ response' = r.res.val
    /\ UNCHANGED <<base_uri, token, call, target, sent, nreq, conts, harnessVars,
                   binding, token_before>>

\* JsonApiClient::request_json: self.response_to_json(response).
request_json_decode ==
    /\ pc = "to_json"
    /\ pc' = IF unwrap(call).op = "login" THEN "login_token" ELSE "done"
    /\ result' = Some(response_to_json(unwrap(response)))
    /\ response' = None
    /\ UNCHANGED <<base_uri, token, request, response_fut, net, call, target, page,
                   vec, sent, rcvd, nreq, conts, harnessVars, binding, token_before>>

\* JsonApiClient::autopagination, the loop condition:
\* try!(self.next_page_uri(&response)).
autopagination_next_page ==
    /\ pc = "next_page"
    /\ LET r == next_page_uri(unwrap(response))
       IN  IF ~r.ok THEN Fail(unwrap(r.err)) /\ UNCHANGED conts
           ELSE /\ page' = unwrap(r.val)
                /\ pc' = IF is_some(unwrap(r.val)) THEN "push" ELSE "last"
                /\ conts' = conts \o unwrap(r.val)
                /\ UNCHANGED <<result, response, vec>>
    /\ UNCHANGED <<base_uri, token, request, response_fut, net, call, target,
                   sent, rcvd, nreq, harnessVars, binding, token_before>>

\* JsonApiClient::autopagination, the loop body: decode and push the page,
\* then call request() for `page`.
autopagination_push ==
    /\ pc = "push"
    /\ LET r == autopagination_page(vec, unwrap(response))
       IN  IF ~r.ok THEN Fail(unwrap(r.err)) /\ UNCHANGED target
           ELSE /\ vec' = unwrap(r.val)
                /\ target' = page
                /\ page' = None
                /\ response' = None
                /\ pc' = "request"
                /\ UNCHANGED result
    /\ UNCHANGED <<base_uri, token, request, response_fut, net, call,
                   sent, rcvd, nreq, conts, harnessVars, binding, token_before>>

\* JsonApiClient::autopagination after the loop.
autopagination_last ==
    /\ pc = "last"
    /\ pc' = "done"
    /\ result' = Some(autopagination_finish(vec, unwrap(response)))
    /\ response' = None
    /\ page' = None
    /\ vec' = <<>>
    /\ UNCHANGED <<base_uri, token, request, response_fut, net, call, target,
                   sent, rcvd, nreq, conts, harnessVars, binding, token_before>>

Next ==
    \/ Call
    \/ request_dispatch
    \/ request_response
    \/ request_json_decode
    \/ autopagination_next_page
    \/ autopagination_push
    \/ autopagination_last

Spec == Init /\ [][Next]_vars

----------------------------------------------------------------------------
(* login of the three bindings, and a client session: logins and requests  *)
(* in any order                                                            *)

\* enum ApiCredentials.
NoAuth == [kind |-> "NoAuth", user |-> <<>>, pass |-> <<>>, code |-> <<>>, key |-> <<>>]

ApiKey(key) ==
    [kind |-> "ApiKey", user |-> <<>>, pass |-> <<>>, code |-> <<>>, key |-> key]

UserPass(user, pass) ==
    [kind |-> "UserPass", user |-> user, pass |-> pass, code |-> <<>>, key |-> <<>>]

UserPassTwoFactor(user, pass, code) ==
    [kind |-> "UserPassTwoFactor", user |-> user, pass |-> pass, code |-> code,
     key |-> <<>>]

Str_oauth_token == <<"/","o","a","u","t","h","/","t","o","k","e","n">>

Str_grant_type == <<"g","r","a","n","t","_","t","y","p","e">>

Str_password == <<"p","a","s","s","w","o","r","d">>

Str_username == <<"u","s","e","r","n","a","m","e">>

\* "key":"value"
StringMember(key, value) == <<Quote>> \o key \o <<Quote, ":", Quote>> \o value \o <<Quote>>

\* GitlabClient::login, closure `auth`: the parameters of the token request,
\* as the text Value::from(json_map) serialises to.
json_map(user, pass) ==
    <<"{">> \o StringMember(Str_grant_type, Str_password) \o <<",">>
            \o StringMember(Str_password, pass) \o <<",">>
            \o StringMember(Str_username, user) \o <<"}">>

\* GitlabClient::login, closure `auth`: the URI of the token request.
auth_uri(base) ==
    IF ~is_some(scheme(base)) \/ ~is_some(authority(base))
    THEN Err(ClientError("Invalid base URI", <<>>))
    ELSE LET formatted ==
                 unwrap(scheme(base)) \o <<":", "/", "/">> \o unwrap(authority(base))
             host_uri == IF ends_with(formatted, <<"/">>)
                         THEN SubSeq(formatted, 1, Len(formatted) - 1)
                         ELSE formatted
         IN  parse_Uri(host_uri \o Str_oauth_token)

\* Mutant: a response without "access_token" yields no token instead of an
\* error.
auth_token_lenient(json) ==
    IF ~json.ok THEN json
    ELSE LET a == get(unwrap(json.val), Str_access_token)
         IN  IF ~is_some(a) THEN Ok(None) ELSE Ok(as_str(unwrap(a)))

\* GitlabClient::login, closure `auth`, once request_json has returned
\* `json`: Result<Option<String>>.
auth_token(json) ==
    IF ~json.ok THEN json
    ELSE LET a == get(unwrap(json.val), Str_access_token)
         IN  IF ~is_some(a)
             THEN Err(ClientError("Could not log in with given username and password",
                                  <<>>))
             ELSE Ok(as_str(unwrap(a)))

\* Mutant: NoAuth is refused.
login_match_refuses_NoAuth(creds, a) ==
    CASE creds.kind = "NoAuth" ->
             Err(ClientError("Invalid credentials provided for login", <<>>))
      [] creds.kind = "ApiKey" -> Ok(Some(PersonalAccess(creds.key)))
      [] OTHER ->
             IF ~a.ok THEN a
             ELSE IF is_some(unwrap(a.val)) THEN Ok(Some(Oauth(unwrap(unwrap(a.val)))))
             ELSE Ok(None)

\* Mutant: an API key is kept as an OAuth token.
login_match_key_as_Oauth(creds, a) ==
    CASE creds.kind = "NoAuth" -> Ok(None)
      [] creds.kind = "ApiKey" -> Ok(Some(Oauth(creds.key)))
      [] OTHER ->
             IF ~a.ok THEN a
             ELSE IF is_some(unwrap(a.val)) THEN Ok(Some(Oauth(unwrap(unwrap(a.val)))))
             ELSE Ok(None)

\* GitlabClient::login, `match *creds`: the token to keep; `a` is what the
\* closure `auth` returned, for the two credentials that call it.
login_match(creds, a) ==
    CASE creds.kind = "NoAuth" -> Ok(None)
      [] creds.kind = "ApiKey" -> Ok(Some(PersonalAccess(creds.key)))
      [] OTHER ->
             IF ~a.ok THEN a
             ELSE IF is_some(unwrap(a.val)) THEN Ok(Some(Oauth(unwrap(unwrap(a.val)))))
             ELSE Ok(None)

\* GitlabClient::login, its end: try! returns the error, otherwise
\* self.token = token; Ok(()).
login_assign(tok, m) ==
    IF m.ok THEN [token |-> unwrap(m.val), res |-> Ok(Unit)]
    ELSE [token |-> tok, res |-> m]

\* SensuClient::login.
sensu_login(creds) == Ok(Unit)

Str_v1_auth_ldap_login ==
    <<"/","v","1","/","a","u","t","h","/","l","d","a","p","/","l","o","g","i","n","/">>

\* VaultClient::login, up to api_request: the path the credentials are
\* posted to.
vault_login_path(creds) ==
    IF creds.kind \in {"UserPassTwoFactor", "UserPass"}
    THEN Ok(Str_v1_auth_ldap_login \o creds.user)
    ELSE Err(ClientError("Invalid credentials provided for login", <<>>))

\* ApiClient::api_request of the trait VaultClient implements: one round
\* trip whose body is decoded as JSON.
api_request(o) ==
    IF ~o.ok THEN Err(From_hyper_Error(unwrap(o.err)))
    ELSE response_to_json(unwrap(o.val))

\* token_payload.get("auth").and_then(|x| x.get("client_token")).
get_client_token(token_payload) ==
    LET auth == get(token_payload, Str_auth)
    IN  IF is_some(auth) THEN get(unwrap(auth), Str_client_token) ELSE None

\* VaultClient::login, once api_request has returned `token_payload`.
vault_login_token(tok, token_payload) ==
    IF ~token_payload.ok THEN [token |-> tok, res |-> token_payload]
    ELSE LET client_token == get_client_token(unwrap(token_payload.val))
             t == IF is_some(client_token) THEN as_str(unwrap(client_token)) ELSE None
         IN  IF ~is_some(t)
             THEN [token |-> tok,
                   res |-> Err(ClientError("Could not retrieve auth token", <<>>))]
             ELSE [token |-> t, res |-> Ok(Unit)]

\* VaultClient::json_api_next_page_url: unimplemented!().
json_api_next_page_url(resp) == Panic("not yet implemented")

Credentials ==
    { NoAuth, ApiKey(<<"k">>), UserPass(<<"u">>, <<"p">>),
      UserPassTwoFactor(<<"u">>, <<"p">>, <<"7">>) }

LoginCall(c) ==
    [op |-> "login", method |-> "Post", params |-> Some(json_map(c.user, c.pass)),
     creds |-> c]

\* GitlabClient::login, from its call to its return or to the request_json
\* of the closure `auth`.
login ==
    /\ binding = "gitlab"
    /\ Enter
    /\ \E c \in Credentials :
        LET calls_auth == c.kind \in {"UserPass", "UserPassTwoFactor"}
            u == auth_uri(base_uri)
            r == login_assign(token, IF calls_auth THEN u ELSE login_match(c, Ok(None)))
        IN  /\ call' = Some(LoginCall(c))
            /\ IF calls_auth /\ u.ok
               THEN /\ pc' = "request"
                    /\ target' = u.val
                    /\ result' = None
                    /\ token' = token
               ELSE /\ pc' = "done"
                    /\ target' = None
                    /\ result' = Some(r.res)
                    /\ token' = r.token

\* GitlabClient::login after request_json returned Ok or a decode error.
login_token ==
    /\ pc = "login_token"
    /\ LET r == login_assign(token,
                    login_match(unwrap(call).creds, auth_token(unwrap(result))))
       IN  /\ token' = r.token
           /\ result' = Some(r.res)
    /\ pc' = "done"
    /\ UNCHANGED <<base_uri, request, response_fut, net, call, target, response, page,
                   vec, sent, rcvd, nreq, conts, harnessVars, binding, token_before>>

SensuLogin ==
    /\ binding = "sensu"
    /\ Enter
    /\ \E c \in Credentials :
        /\ call' = Some(LoginCall(c))
        /\ result' = Some(sensu_login(c))
    /\ pc' = "done"
    /\ target' = None
    /\ UNCHANGED token

VaultLogin ==
    /\ binding = "vault"
    /\ Enter
    /\ \E c \in Credentials :
        LET path == vault_login_path(c)
        IN  /\ call' = Some(LoginCall(c))
            /\ IF path.ok
               THEN /\ pc' = "api_request"
                    /\ target' = Some(Uri(unwrap(path.val), None, None))
                    /\ result' = None
               ELSE /\ pc' = "done"
                    /\ target' = None
                    /\ result' = Some(path)
    /\ UNCHANGED token

\* VaultClient::login: api_request and what follows it.
VaultApiRequest ==
    /\ pc = "api_request"
    /\ \E o \in LoginOutcomes :
        LET r == vault_login_token(token, api_request(o))
        IN  /\ token' = r.token
            /\ result' = Some(r.res)
            /\ rcvd' = IF o.ok THEN Append(rcvd, unwrap(o.val)) ELSE rcvd
    /\ sent' = Append(sent, Request("Post", unwrap(target)))
    /\ nreq' = nreq + 1
    /\ pc' = "done"
    /\ UNCHANGED <<base_uri, request, response_fut, net, call, target, response, page,
                   vec, conts, harnessVars, binding, token_before>>

\* A caller asks the Vault binding for the next page of a response.
VaultNextPage ==
    /\ binding = "vault"
    /\ Enter
    /\ call' = Some([op |-> "json_api_next_page_url"])
    /\ LET r == json_api_next_page_url(None)
       IN  IF panicked(r)
           THEN pc' = "abort" /\ result' = None
           ELSE pc' = "done" /\ result' = Some(r)
    /\ target' = None
    /\ UNCHANGED token

Bindings == {"gitlab", "sensu", "vault"}

SessionBases == { unwrap(parse_Uri(s).val) : s \in {Str_s_h_a, <<"h">>} }

\* Requests made in a session: to a relative and to an absolute target, and
\* to a target that begins with a two-byte character.
SessionCalls ==
    { [op |-> o, method |-> "Get", uri |-> unwrap(parse_Uri(u).val), params |-> None] :
        o \in Ops, u \in {<<"/", "p">>, Str_s_g_p, <<TwoByteChar>>} }

SessionCall == CallFrom(SessionCalls)

\* XxxClient::new: GitlabClient and SensuClient start without a token,
\* VaultClient::new(api_url, token) with the token it is given.
InitSession ==
    /\ binding \in Bindings
    /\ base_uri \in SessionBases
    /\ token \in IF binding = "vault" THEN {None, Some(<<"w">>)} ELSE {None}
    /\ request = None
    /\ response_fut = None
    /\ net = <<>>
    /\ pc = "idle"
    /\ call = None
    /\ target = None
    /\ response = None
    /\ page = None
    /\ vec = <<>>
    /\ result = None
    /\ sent = <<>>
    /\ rcvd = <<>>
    /\ nreq = 0
    /\ conts = <<>>
    /\ token_before = None
    /\ rin = [b1 |-> base_uri, b2 |-> base_uri, t |-> base_uri]
    /\ rout = None

NextSession ==
    \/ login
    \/ login_token
    \/ SensuLogin
    \/ VaultLogin
    \/ VaultApiRequest
    \/ VaultNextPage
    \/ SessionCall
    \/ request_dispatch
    \/ request_response
    \/ request_json_decode
    \/ autopagination_next_page
    \/ autopagination_push
    \/ autopagination_last

SpecSession == InitSession /\ [][NextSession]_vars

----------------------------------------------------------------------------
(* Resolver harness: full_uri applied to one target under two bases *)

Str_https_h_api == <<"h","t","t","p","s",":","/","/","h","/","a","p","i","/">>

Str_v1_items == <<"/","v","1","/","i","t","e","m","s">>

Str_https_h_api_v1_items ==
    <<"h","t","t","p","s",":","/","/","h","/","a","p","i","/",
      "v","1","/","i","t","e","m","s">>

\* Arguments of GitlabClient::new(base_uri: String).
BaseStrings ==
    { <<"s",":","/","/","h">>,
      <<"s",":","/","/","h","/">>,
      <<"s",":","/","/","h","/","a">>,
      <<"s",":","/","/","h","/","a","/">>,
      <<"s",":","/","/","h","/","a","/","/">>,
      <<"s",":","/","/","g","/","a">>,
      Str_https_h_api,
      <<"/","a">>,
      <<"/","a","/">>,
      <<"h">>,
      <<>> }

\* GitlabClient::new keeps base_uri.parse::<Uri>()? : a client exists only
\* for a base string that parses.
Bases == { unwrap(parse_Uri(s).val) : s \in {x \in BaseStrings : parse_Uri(x).ok} }

UriAlphabet == {"/", "v", ":"}

TargetStrings ==
    StringsUpTo(UriAlphabet, MaxTargetLen) \cup
    { Str_v1_items, <<"*">>,
      <<"s",":","/","/","h","/","p">>,
      <<"s",":","/","/","g","/","p">>,
      <<"s",":","/","/","g">> }

\* The `uri: Uri` argument of request(): any string that parses as a Uri.
Targets == { unwrap(parse_Uri(s).val) : s \in {x \in TargetStrings : parse_Uri(x).ok} }

ClientIdle ==
    /\ base_uri = unwrap(parse_Uri(Str_https_h_api).val)
    /\ token = None
    /\ request = None
    /\ response_fut = None
    /\ net = <<>>
    /\ pc = "idle"
    /\ call = None
    /\ target = None
    /\ response = None
    /\ page = None
    /\ vec = <<>>
    /\ result = None
    /\ sent = <<>>
    /\ rcvd = <<>>
    /\ nreq = 0
    /\ conts = <<>>
    /\ binding = "gitlab"
    /\ token_before = None

InitResolve ==
    /\ ClientIdle
    /\ rin \in [b1 : Bases, b2 : Bases, t : Targets]
    /\ rout = None

\* request() run up to make_request on a fresh client with base `base`:
\* the resolved URI and what the transport was given.
resolve(base, uri) ==
    [res |-> full_uri(base, uri),
     dispatched |-> request_send([request |-> None, response_fut |-> None],
                                 base, None, "Get", uri, None).dispatched]

\* The same target resolved and dispatched by two clients.
Resolve ==
    /\ rout = None
    /\ rout' = Some(<<resolve(rin.b1, rin.t), resolve(rin.b2, rin.t)>>)
    /\ UNCHANGED <<rin, clientVars>>

NextResolve == Resolve

SpecResolve == InitResolve /\ [][NextResolve]_vars

----------------------------------------------------------------------------
(* SimpleHttpClient on its own: the methods of HttpClient called in any    *)
(* order                                                                   *)

\* Most method calls made on one SimpleHttpClient.
MaxHttpCalls == 5

HttpUris == { unwrap(parse_Uri(s).val) : s \in {Str_s_g_p, Str_s_g_q} }

HttpParams == { None, Some(<<"{", "}">>) }

HttpHeaders == { <<"Private-Token", <<<<"k">>>>>>, <<"Accept", "*/*">> }

HttpOutcomes == { Ok(Response(None, Ok(<<"1">>))), Err("hyper::Error::Io") }

\* The client as the methods see it.
http == [request |-> request, response_fut |-> response_fut]

\* SimpleHttpClient::new.  rout is history: how many requests make_request
\* has handed to the transport since the last request_init, and how many
\* responses response() has returned since the last make_request that
\* succeeded.
InitHttp ==
    /\ ClientIdle
    /\ rin = None
    /\ rout = [dispatches |-> 0, handouts |-> 0]

\* A method of the client is called: `call` keeps its name and the state it
\* was called in, `result` what it returned.
HttpCall(name, r) ==
    /\ nreq < MaxHttpCalls
    /\ nreq' = nreq + 1
    /\ call' = Some([op |-> name, request |-> request, response_fut |-> response_fut,
                     net |-> net, dispatches |-> rout.dispatches,
                     handouts |-> rout.handouts])
    /\ request' = r.http.request
    /\ response_fut' = r.http.response_fut
    /\ result' = Some(r.res)
    /\ UNCHANGED <<base_uri, token, pc, target, response, page, vec, rcvd, conts,
                   binding, token_before, rin>>

RequestInit ==
    /\ \E m \in {"Get", "Post"}, u \in HttpUris : HttpCall("request_init", request_init(http, m, u))
    /\ rout' = [rout EXCEPT !.dispatches = 0]
    /\ UNCHANGED <<net, sent>>

RequestAttributes ==
    /\ \E ps \in HttpParams : HttpCall("request_attributes", request_attributes(http, ps))
    /\ UNCHANGED <<net, sent, rout>>

SetRequestHeader ==
    /\ \E x \in HttpHeaders : HttpCall("set_request_header", set_request_header(http, x))
    /\ UNCHANGED <<net, sent, rout>>

\* make_request: a future that is overwritten is dropped, and its exchange
\* with it.
MakeRequest ==
    /\ LET r == make_request(http)
       IN  /\ HttpCall("make_request", r)
           /\ net' = IF r.res.ok THEN r.dispatched ELSE net
           /\ sent' = sent \o r.dispatched
           /\ rout' = IF r.res.ok
                      THEN [dispatches |-> rout.dispatches + Len(r.dispatched),
                            handouts |-> 0]
                      ELSE rout

GetResponse ==
    /\ \E o \in HttpOutcomes :
        LET r == http_response(http, net, o)
        IN  /\ HttpCall("response", r)
            /\ net' = r.net
            /\ rout' = IF r.res.ok THEN [rout EXCEPT !.handouts = @ + 1] ELSE rout
    /\ UNCHANGED sent

NextHttp ==
    \/ RequestInit
    \/ RequestAttributes
    \/ SetRequestHeader
    \/ MakeRequest
    \/ GetResponse

SpecHttp == InitHttp /\ [][NextHttp]_vars

----------------------------------------------------------------------------
(* Link harness: Link::parse_header applied to the text of a header value *)

\* Most entries in the header values the harness enumerates.
MaxEntries == 3

LinkUrls == { <<"u">>, Str_s_g_q }

LinkNames == { Str_prev, Str_next, Str_first, Str_last, <<"u", "p">> }

\* <URL>; rel="NAME"
EntryText(e) == <<"<">> \o e.url \o <<">", ";", " ">> \o Str_rel_eq_quote \o e.name \o <<Quote>>

\* The entries of a header value, separated by ", ".
RECURSIVE LinkText(_)
LinkText(es) ==
    IF Len(es) = 1 THEN EntryText(es[1])
    ELSE EntryText(es[1]) \o <<",", " ">> \o LinkText(Tail(es))

LinkInputs ==
    UNION { [1..n -> [url : LinkUrls, name : LinkNames]] : n \in 1..MaxEntries }

InitLink ==
    /\ ClientIdle
    /\ rin \in LinkInputs
    /\ rout = None

\* A response arrives whose Link header value is the text of rin, and the
\* header is parsed.
ParseLink ==
    /\ rout = None
    /\ rout' = Some(parse_header(<<entries_of(LinkText(rin), 1)>>))
    /\ UNCHANGED <<rin, clientVars>>

NextLink == ParseLink

SpecLink == InitLink /\ [][NextLink]_vars

----------------------------------------------------------------------------
(* Claims about target resolution *)

r1 == unwrap(rout)[1].res

r2 == unwrap(rout)[2].res

\* The URIs of the requests each client handed to the transport.
d1 == [k \in 1..Len(unwrap(rout)[1].dispatched) |-> unwrap(rout)[1].dispatched[k].uri]

d2 == [k \in 1..Len(unwrap(rout)[2].dispatched) |-> unwrap(rout)[2].dispatched[k].uri]

\* C9: an absolute target is resolved to itself, unchanged, whatever the
\* base: for any two bases b1, b2 (equal or not, same host as the target or
\* not) resolve(b1, u) = resolve(b2, u) = u, and u is the URI of the one
\* request given to the transport.
C9_AbsoluteTargetIgnoresBase ==
    (is_some(rout) /\ is_absolute(rin.t)) =>
        /\ r1 = Ok(rin.t)
        /\ r2 = Ok(rin.t)
        /\ r1 = r2
        /\ d1 = <<rin.t>>
        /\ d2 = <<rin.t>>

C9_Witness ==
    /\ is_some(rout)
    /\ is_absolute(rin.t)
    /\ rin.b1 # rin.b2
    /\ is_absolute(rin.b1)
    /\ is_absolute(rin.b2)
    /\ authority(rin.t) # authority(rin.b1)
    /\ authority(rin.t) = authority(rin.b2)
    /\ is_some(authority(rin.t))

RECURSIVE strip_trailing_separators(_)
strip_trailing_separators(s) ==
    IF ends_with(s, <<"/">>)
    THEN strip_trailing_separators(SubSeq(s, 1, Len(s) - 1))
    ELSE s

\* The base made to end with exactly one trailing separator.
ExactlyOneTrailing(s) == Append(strip_trailing_separators(s), "/")

\* The base with a separator appended when it does not end with one.
SeparatorAppended(s) == IF ends_with(s, <<"/">>) THEN s ELSE Append(s, "/")

\* The target with at most one leading separator removed.
OneLeadingStripped(s) ==
    IF Len(s) > 0 /\ s[1] = "/" THEN SubSeq(s, 2, Len(s)) ELSE s

\* resolve(b, t) = resolve(b + "/", t) for a relative t and a base b that
\* does not end with a separator.
TrailingSeparatorIrrelevant ==
    ( /\ ~is_absolute(rin.t)
      /\ ~ends_with(rin.b1.source, <<"/">>)
      /\ rin.b2.source = Append(rin.b1.source, "/") ) => r1 = r2

\* resolve("https://h/api/", "/v1/items") = "https://h/api/v1/items".
ResolveExample ==
    (rin.b1.source = Str_https_h_api /\ rin.t.source = Str_v1_items) =>
        r1.ok /\ unwrap(r1.val).source = Str_https_h_api_v1_items

EmptyAfterStripping(uri) ==
    ~is_absolute(uri) /\ OneLeadingStripped(uri.source) = <<>>

\* C11 as stated: resolving a relative target that is empty after its
\* single leading separator is stripped fails, and no request is given to
\* the transport.
C11_EmptyTargetRejected ==
    (is_some(rout) /\ EmptyAfterStripping(rin.t)) =>
        /\ ~r1.ok
        /\ d1 = <<>>

\* C11 amended: resolving a relative target that is empty after its single
\* leading separator is stripped does not fail: under an absolute base it
\* resolves to the base itself, with one separator appended when the base
\* does not end with one, and the request is given to the transport with
\* that URI.
C11_EmptyTargetResolvesToBase ==
    (is_some(rout) /\ EmptyAfterStripping(rin.t) /\ is_absolute(rin.b1)) =>
        /\ r1.ok
        /\ unwrap(r1.val).source = SeparatorAppended(rin.b1.source)
        /\ d1 = <<unwrap(r1.val)>>

C11_Witness ==
    /\ is_some(rout)
    /\ rin.t.source = <<"/">>
    /\ is_absolute(rin.b1)
    /\ ~ends_with(rin.b1.source, <<"/">>)
    /\ r1.ok
    /\ Len(d1) = 1

\* C12 as stated: a relative base is refused: no request is ever given to
\* the transport with a URI made by concatenating a relative base and a
\* relative target; the operation fails instead.
C12_RelativeBaseRefused ==
    (is_some(rout) /\ ~is_absolute(rin.b1) /\ ~is_absolute(rin.t)) =>
        /\ ~r1.ok
        /\ d1 = <<>>


----------------------------------------------------------------------------
(* Claims about request, request_json and autopagination                   *)

op == unwrap(call).op

Returned == pc = "done"

outcome == unwrap(result)

\* The pages of a successful autopagination: the items of Value::Array(vec).
pages == unwrap(outcome.val).a

\* The body of a response was read and is valid JSON.
ValidJson(resp) == resp.body.ok /\ from_slice(unwrap(resp.body.val)).ok

\* The decoded payload of a response whose body is valid JSON.
payload(resp) == unwrap(from_slice(unwrap(resp.body.val)).val)

\* The response declares a `next` relation / a continuation the walk follows.
DeclaresNext(resp) == has_next(headers_get_Link(resp))

Continuation(resp) == next(headers_get_Link(resp))

\* The response has no Link header, or a Link header without `next`.
NoNextDeclared(resp) ==
    \/ ~is_some(resp.link)
    \/ /\ parse_header(unwrap(resp.link)).ok
       /\ ~is_some(unwrap(parse_header(unwrap(resp.link)).val).next)

\* The response has a Link header that is malformed: it does not parse, or
\* its `next` URL is no URI.
MalformedLink(resp) ==
    /\ is_some(resp.link)
    /\ \/ ~parse_header(unwrap(resp.link)).ok
       \/ /\ is_some(unwrap(parse_header(unwrap(resp.link)).val).next)
          /\ ~parse_Uri(unwrap(unwrap(parse_header(unwrap(resp.link)).val).next)).ok

\* C1: when autopagination has returned after N >= 1 responses, of which
\* the first N-1 each declared a `next` relation and the N-th declared
\* none, and every body was valid JSON, then it returned success, N
\* requests were issued, and the result is the sequence of the N decoded
\* payloads, the k-th being the payload of the response to the k-th request.
C1_AllPagesInRequestOrder ==
    ( /\ Returned
      /\ op = "autopagination"
      /\ Len(rcvd) >= 1
      /\ \A k \in 1..(Len(rcvd) - 1) : DeclaresNext(rcvd[k])
      /\ ~DeclaresNext(rcvd[Len(rcvd)])
      /\ \A k \in 1..Len(rcvd) : ValidJson(rcvd[k]) )
    => /\ outcome.ok
       /\ Len(sent) = Len(rcvd)
       /\ pages = [k \in 1..Len(rcvd) |-> payload(rcvd[k])]

C1_Witness ==
    /\ Returned
    /\ op = "autopagination"
    /\ Len(rcvd) = 3
    /\ DeclaresNext(rcvd[1]) /\ DeclaresNext(rcvd[2]) /\ ~DeclaresNext(rcvd[3])
    /\ \A k \in 1..3 : ValidJson(rcvd[k])
    /\ payload(rcvd[1]) # payload(rcvd[2])
    /\ outcome.ok
    /\ Len(pages) = 3

\* C2: when the last response autopagination received has no Link header,
\* or a Link header without a `next` relation, the walk ends there without
\* an error from the continuation step: no further request is issued, the
\* operation succeeds exactly when that page's body decodes, and then the
\* page is the last element of the result (one element for one page).
C2_NoContinuationEndsWalk ==
    ( /\ Returned
      /\ op = "autopagination"
      /\ Len(rcvd) >= 1
      /\ NoNextDeclared(rcvd[Len(rcvd)]) )
    => /\ Len(sent) = Len(rcvd)
       /\ nreq = Len(rcvd)
       /\ outcome.ok = ValidJson(rcvd[Len(rcvd)])
       /\ outcome.ok =>
            /\ Len(pages) = Len(rcvd)
            /\ pages[Len(pages)] = payload(rcvd[Len(rcvd)])

C2_Witness ==
    /\ Returned
    /\ op = "autopagination"
    /\ Len(rcvd) = 1
    /\ ~is_some(rcvd[1].link)
    /\ outcome.ok
    /\ Len(pages) = 1

\* C3: at most one request is outstanding at any time, and the request for
\* page k+1 is handed to the transport only after k responses have been
\* received and, in autopagination, k continuation URLs extracted.
C3_StrictlySequential ==
    /\ Len(net) <= 1
    /\ Len(sent) <= Len(rcvd) + 1
    /\ (call # None /\ op = "autopagination") => Len(sent) <= Len(conts) + 1
    /\ Len(net) = 1 => Len(sent) = Len(rcvd) + 1

C3_Witness ==
    /\ call # None
    /\ op = "autopagination"
    /\ Len(net) = 1
    /\ Len(sent) = 3
    /\ Len(rcvd) = 2
    /\ Len(conts) = 2

\* Some step of the operation failed: a request was not dispatched or not
\* answered, or a received body could not be read or decoded.
SomeStepFailed ==
    \/ nreq > Len(rcvd)
    \/ \E k \in 1..Len(rcvd) : ~ValidJson(rcvd[k])

\* C4: when a step of autopagination has failed (resolution, transport,
\* continuation extraction, body read or decode), the operation returns an
\* error and the error carries none of the pages decoded before it.
C4_FailureDiscardsPages ==
    (Returned /\ op = "autopagination" /\ SomeStepFailed)
    => /\ ~outcome.ok
       /\ outcome.val = None
       /\ vec = <<>>

C4_Witness ==
    /\ Returned
    /\ op = "autopagination"
    /\ Len(rcvd) = 3
    /\ ValidJson(rcvd[1]) /\ ValidJson(rcvd[2]) /\ ~ValidJson(rcvd[3])
    /\ ~is_some(Continuation(rcvd[3]))
    /\ ~outcome.ok

\* C5: no retry.  Every request() call hands at most one request to the
\* transport; request and request_json call request() once; in
\* autopagination every request after the first follows a continuation of
\* the response before it, a walk that succeeds over N pages has dispatched
\* exactly N requests, the last page having no continuation, and nothing is
\* dispatched or left outstanding after a failure.
C5_NoRetry ==
    call # None =>
        /\ Len(sent) <= nreq
        /\ nreq <= Len(sent) + 1
        /\ op \in {"request", "request_json"} => nreq <= 1
        /\ \A k \in 2..Len(sent) :
               k - 1 <= Len(rcvd) /\ is_some(Continuation(rcvd[k - 1]))
        /\ (Returned /\ outcome.ok) =>
               /\ Len(sent) = Len(rcvd)
               /\ nreq = Len(sent)
               /\ op = "autopagination" =>
                      /\ ~is_some(Continuation(rcvd[Len(rcvd)]))
                      /\ Len(pages) = Len(sent)
        /\ (Returned /\ ~outcome.ok) => (net = <<>> /\ Len(sent) <= Len(rcvd) + 1)

C5_Witness ==
    /\ Returned
    /\ op = "autopagination"
    /\ outcome.ok
    /\ Len(sent) = 3
    /\ nreq = 3

\* The responses of the operation whose body is empty.
EmptyBody(resp) == resp.body.ok /\ unwrap(resp.body.val) = <<>>

\* C6 as stated: an empty body decodes to an empty JSON array and is no
\* error: request_json returns the empty array, and autopagination over
\* pages whose bodies are each empty or valid JSON succeeds with an empty
\* array for every empty page.
C6_EmptyBodyIsEmptyArray ==
    (Returned /\ nreq = Len(rcvd) /\ Len(rcvd) >= 1) =>
        /\ (op = "request_json" /\ EmptyBody(rcvd[1])) =>
               outcome = Ok(JArray(<<>>))
        /\ ( /\ op = "autopagination"
             /\ ~is_some(Continuation(rcvd[Len(rcvd)]))
             /\ \A k \in 1..Len(rcvd) : EmptyBody(rcvd[k]) \/ ValidJson(rcvd[k]) )
           => /\ outcome.ok
              /\ \A k \in 1..Len(rcvd) :
                     EmptyBody(rcvd[k]) => pages[k] = JArray(<<>>)

\* C6 amended: an empty body does not decode.  request_json (through
\* response_to_json) returns the error "Failed to parse JSON: " with no
\* body text; autopagination fails on the page with the empty body, with
\* that error for a page that has a continuation and with serde_json's
\* error for the last page.
C6_EmptyBodyIsError ==
    (Returned /\ Len(rcvd) >= 1 /\ EmptyBody(rcvd[Len(rcvd)])) =>
        /\ op = "request_json" =>
               outcome = Err(ClientError("Failed to parse JSON: ", <<>>))
        /\ op = "autopagination" =>
               outcome = IF is_some(Continuation(rcvd[Len(rcvd)]))
                         THEN Err(ClientError("Failed to parse JSON: ", <<>>))
                         ELSE Err(ClientError("JSON error", <<>>))

C6_Witness ==
    /\ Returned
    /\ op = "autopagination"
    /\ Len(rcvd) = 2
    /\ ValidJson(rcvd[1])
    /\ EmptyBody(rcvd[2])
    /\ ~outcome.ok

\* The body was read, is not empty, is UTF-8 text and is not valid JSON.
UndecodableText(resp) ==
    /\ resp.body.ok
    /\ unwrap(resp.body.val) # <<>>
    /\ from_utf8(unwrap(resp.body.val)).ok
    /\ ~from_slice(unwrap(resp.body.val)).ok

\* C7: when the body of the last response received is present text that is
\* not valid JSON, the error request_json or autopagination returns carries
\* that text, whether or not the page has a continuation.
C7_DecodeErrorCarriesBody ==
    ( /\ Returned
      /\ op \in {"request_json", "autopagination"}
      /\ Len(rcvd) >= 1
      /\ nreq = Len(rcvd)
      /\ UndecodableText(rcvd[Len(rcvd)]) )
    => /\ ~outcome.ok
       /\ unwrap(outcome.err).raw = unwrap(rcvd[Len(rcvd)].body.val)

\* C8: when a response autopagination received carries a malformed Link
\* header (one that does not parse, or whose `next` URL is no URI), the
\* operation returns an error.
C8_MalformedLinkSurfaced ==
    ( /\ Returned
      /\ op = "autopagination"
      /\ \E k \in 1..Len(rcvd) : MalformedLink(rcvd[k]) )
    => ~outcome.ok

----------------------------------------------------------------------------
(* Claims about login *)

\* The login that has returned was given credentials of kind k.
LoginReturned(k) ==
    /\ Returned
    /\ call # None
    /\ op = "login"
    /\ unwrap(call).creds.kind = k

\* No request reached the transport during the operation.
NoTransportRequest == sent = <<>> /\ nreq = 0 /\ rcvd = <<>>

PasswordLoginAnswered ==
    /\ Returned
    /\ call # None
    /\ op = "login"
    /\ unwrap(call).creds.kind \in {"UserPass", "UserPassTwoFactor"}
    /\ Len(rcvd) = 1
    /\ ValidJson(rcvd[1])

\* The JSON value lacks the field the binding reads the token from:
\* "access_token" for Gitlab, "client_token" inside "auth" for Vault.
LacksTokenField(v) ==
    IF binding = "vault"
    THEN ~is_some(get_client_token(v))
    ELSE ~is_some(get(v, Str_access_token))

\* The error of the binding for a login answer without the token.
AuthError ==
    IF binding = "vault"
    THEN ClientError("Could not retrieve auth token", <<>>)
    ELSE ClientError("Could not log in with given username and password", <<>>)

\* Every error decoding a response can end with.
DecodeErrors ==
    { unwrap(response_to_json(unwrap(o.val)).err) :
        o \in { x \in Outcomes \cup LoginOutcomes :
                  x.ok /\ ~response_to_json(unwrap(x.val)).ok } }

\* C15: a login with UserPass or UserPassTwoFactor that is answered with
\* valid JSON lacking the token field returns the binding's authentication
\* error, which is none of the errors decoding can return, and leaves the
\* token as it was when login was called (Gitlab and Vault bindings).
C15_MissingTokenIsAuthError ==
    ( /\ PasswordLoginAnswered
      /\ binding \in {"gitlab", "vault"}
      /\ LacksTokenField(payload(rcvd[1])) ) =>
        /\ outcome = Err(AuthError)
        /\ AuthError \notin DecodeErrors
        /\ token = token_before

C15_Witness ==
    /\ PasswordLoginAnswered
    /\ binding = "gitlab"
    /\ LacksTokenField(payload(rcvd[1]))
    /\ payload(rcvd[1]).t = "Object"
    /\ token_before # None
    /\ ~outcome.ok

\* The client between two operations holds no request and no response
\* future, and the transport holds nothing for it: the state every
\* operation starts from.
ClientReusable ==
    /\ request = None
    /\ response_fut = None
    /\ net = <<>>
    /\ ENABLED SessionCall

AuthHeaders(req) == { x \in req.headers : x[1] \in {"Authorization", "Private-Token"} }

\* The authentication headers the token calls for.
ExpectedAuthHeaders(tok) ==
    IF tok = None THEN {}
    ELSE IF unwrap(tok).kind = "Oauth"
    THEN {<<"Authorization", <<"Bearer", unwrap(tok).t>>>>}
    ELSE {<<"Private-Token", <<unwrap(tok).t>>>>}

\* C19: every request the Gitlab binding hands to the transport carries at
\* most one authentication header, the one the token of the client calls
\* for: Authorization: Bearer t for Oauth(t), Private-Token: t for
\* PersonalAccess(t), none without a token.
C19_AuthHeaderFollowsToken ==
    binding = "gitlab" =>
        \A k \in 1..Len(sent) :
            /\ Cardinality(AuthHeaders(sent[k])) <= 1
            /\ AuthHeaders(sent[k]) = ExpectedAuthHeaders(token_before)

C19_Witness ==
    /\ binding = "gitlab"
    /\ Len(sent) = 2
    /\ token_before # None
    /\ unwrap(token_before).kind = "Oauth"
    /\ AuthHeaders(sent[2]) = {<<"Authorization", <<"Bearer", <<"t">>>>>>}

\* C17 as stated: every operation that is called returns, with a value or
\* with an error value; for no target, response or credentials does an
\* operation abort instead of returning.
C17_NeverAborts == pc # "abort"

----------------------------------------------------------------------------
(* Claims about the Link header *)

\* What parse_header returned for the header value of rin.
parsed_link == unwrap(rout)

\* The field of a Link that relation name `name` fills.
field(l, name) ==
    CASE name = Str_prev -> l.previous
      [] name = Str_next -> l.next
      [] name = Str_first -> l.first
      [] name = Str_last -> l.last

PaginationNames == {Str_prev, Str_next, Str_first, Str_last}

\* The entries of rin with relation name `name`.
EntriesNamed(name) == { k \in 1..Len(rin) : rin[k].name = name }

Last(S) == CHOOSE k \in S : \A j \in S : j <= k

\* Relations the header does not have are absent in the result, and a
\* header that has entries with other relation names still parses.
AbsentAndIgnored ==
    /\ parsed_link.ok
    /\ \A name \in PaginationNames :
           EntriesNamed(name) = {} => field(unwrap(parsed_link.val), name) = None

\* C18 as stated: parsing a well-formed Link header yields, for each entry
\* <URL>; rel="NAME" with NAME in {prev, next, first, last}, the field NAME
\* set to exactly URL; relations not in the header are absent; entries with
\* another relation name are ignored without failure.
C18_EveryEntryFillsItsField ==
    is_some(rout) =>
        /\ AbsentAndIgnored
        /\ \A k \in 1..Len(rin) :
               rin[k].name \in PaginationNames =>
                   field(unwrap(parsed_link.val), rin[k].name) = Some(rin[k].url)

\* C18 amended: parsing a well-formed Link header yields, for each NAME in
\* {prev, next, first, last} that some entry <URL>; rel="NAME" has, the
\* field NAME set to exactly the URL of the last such entry (an earlier
\* entry of the same NAME is overwritten); relations not in the header are
\* absent; entries with another relation name are ignored without failure.
C18_LastEntryFillsItsField ==
    is_some(rout) =>
        /\ AbsentAndIgnored
        /\ \A name \in PaginationNames :
               EntriesNamed(name) # {} =>
                   field(unwrap(parsed_link.val), name) =
                       Some(rin[Last(EntriesNamed(name))].url)

C18_Witness ==
    /\ is_some(rout)
    /\ parsed_link.ok
    /\ Len(rin) = 3
    /\ rin[1].name = Str_next
    /\ rin[2].name \notin PaginationNames
    /\ rin[3].name = Str_next
    /\ rin[1].url # rin[3].url
    /\ unwrap(parsed_link.val).next = Some(rin[3].url)
    /\ unwrap(parsed_link.val).previous = None

----------------------------------------------------------------------------
(* Claims about SimpleHttpClient *)

\* The method called last, and the client as it was when it was called.
called == unwrap(call)

\* The call returned an error and left the pending request, the pending
\* response and the exchange in flight as they were.
RefusedWithoutEffect ==
    /\ ~outcome.ok
    /\ request = called.request
    /\ response_fut = called.response_fut
    /\ net = called.net

\* C20: request_attributes, set_request_header and make_request called
\* while no request is initialized, and response called while no request
\* has been sent, each return an error and leave the pending request and
\* the pending response unchanged.
C20_OutOfOrderCallsAreRefused ==
    call # None =>
        /\ ( /\ called.op \in {"request_attributes", "set_request_header", "make_request"}
             /\ called.request = None ) => RefusedWithoutEffect
        /\ (called.op = "response" /\ called.response_fut = None) =>
               RefusedWithoutEffect

\* response is called on a client whose request is initialized but was not
\* sent.
C20_Witness ==
    /\ call # None
    /\ called.op = "response"
    /\ called.response_fut = None
    /\ called.request # None
    /\ outcome = Err(ClientError("No request sent, get response", <<>>))
    /\ request = called.request

\* C21: in any sequence of calls each initialized request is handed to the
\* transport at most once and the response of each dispatched request is
\* returned at most once: make_request called again after one that
\* succeeded, with no request_init in between, returns an error, and so
\* does response called again after one that returned a response, with no
\* successful make_request in between.
C21_AtMostOnce ==
    /\ rout.dispatches <= 1
    /\ rout.handouts <= 1
    /\ call # None =>
        /\ (called.op = "make_request" /\ called.dispatches = 1) =>
               (~outcome.ok /\ net = called.net)
        /\ (called.op = "response" /\ called.handouts = 1) => ~outcome.ok

\* A second make_request was refused after other calls had come in
\* between, and a response had already been returned for the first.
C21_Witness ==
    /\ call # None
    /\ called.op = "make_request"
    /\ called.dispatches = 1
    /\ called.handouts = 1
    /\ ~outcome.ok
    /\ Len(sent) = 1

\* C22 as stated: whenever the Gitlab login with UserPass or
\* UserPassTwoFactor returns success the client holds an OAuth token
\* afterwards, whatever JSON body the login endpoint answered with.
C22_PasswordLoginLeavesOauthToken ==
    ( /\ binding = "gitlab"
      /\ Returned
      /\ call # None
      /\ op = "login"
      /\ unwrap(call).creds.kind \in {"UserPass", "UserPassTwoFactor"}
      /\ outcome.ok ) =>
        /\ token # None
        /\ unwrap(token).kind = "Oauth"

----------------------------------------------------------------------------
(* C23: a page that does not decode ends the walk                          *)

\* Page k of the running autopagination was received with a Link header
\* that declares `next` and a body that is not JSON.
UndecodableWithNext(k) ==
    /\ k \in 1..Len(rcvd)
    /\ ~ValidJson(rcvd[k])
    /\ DeclaresNext(rcvd[k])
    /\ is_some(Continuation(rcvd[k]))

\* C23: in autopagination, once the body of page k has been received and is
\* not JSON, no request for page k+1 is ever attempted or handed to the
\* transport, whether or not page k declares a `next` relation, and the
\* operation returns an error.
C23_UndecodablePageStopsWalk ==
    (call # None /\ op = "autopagination") =>
        \A k \in 1..Len(rcvd) :
            ~ValidJson(rcvd[k]) =>
                /\ k = Len(rcvd)
                /\ nreq = k
                /\ Len(sent) = k
                /\ net = <<>>
                /\ Returned => ~outcome.ok

C23_Witness ==
    /\ Returned
    /\ op = "autopagination"
    /\ Len(rcvd) = 2
    /\ ValidJson(rcvd[1])
    /\ UndecodableWithNext(2)
    /\ Len(sent) = 2
    /\ ~outcome.ok

----------------------------------------------------------------------------
(* C24: what changes from page to page                                     *)

\* The URI a request for the target is sent to: the target resolved against
\* the base URI.
resolved_target(uri) == unwrap(full_uri(base_uri, uri).val)

\* C24: every request dispatched by one autopagination carries the method
\* and the parameters of the call; the requests differ from the first one
\* in their URI only; the first goes to the caller's target and request
\* k+1 to the `next` URL of response k, resolved against the base URI,
\* which for an absolute `next` URL is that URL itself; and the target
\* of a request about to be made after k responses is that `next` URL.
C24_OnlyTheTargetChanges ==
    (call # None /\ op = "autopagination") =>
        /\ \A k \in 1..Len(sent) :
               /\ sent[k].method = unwrap(call).method
               /\ sent[k].body = unwrap(call).params
               /\ sent[k] = [sent[1] EXCEPT !.uri = sent[k].uri]
        /\ Len(sent) >= 1 => sent[1].uri = resolved_target(unwrap(call).uri)
        /\ \A k \in 2..Len(sent) :
               LET page_uri == unwrap(Continuation(rcvd[k - 1]))
               IN  /\ sent[k].uri = resolved_target(page_uri)
                   /\ is_absolute(page_uri) => sent[k].uri = page_uri
        /\ (pc = "request" /\ Len(rcvd) >= 1) =>
               target = Continuation(rcvd[Len(rcvd)])

C24_Witness ==
    /\ call # None
    /\ op = "autopagination"
    /\ unwrap(call).method = "Post"
    /\ is_some(unwrap(call).params)
    /\ Len(sent) = 3
    /\ Len(rcvd) = 2
    /\ is_absolute(unwrap(Continuation(rcvd[1])))
    /\ ~is_absolute(unwrap(Continuation(rcvd[2])))
    /\ sent[2].uri # sent[1].uri

----------------------------------------------------------------------------
(* interactive.rs: interactive_text.  Standard input is a sequence of      *)
(* characters; a character of the text is one element, TwoByteChar two     *)
(* bytes of UTF-8.                                                         *)

LF == "LF"

\* The width of usize.  The crate's targets have 64 bits; the model keeps
\* the wrap-around with a width whose values it can represent and that
\* still exceeds the length of every line it reads.
usize_BITS == 16

usize_MAX == 2 ^ usize_BITS - 1

\* Overflow checks are on in a debug build and off in a release build.
Builds == {"debug", "release"}

\* `a - b` on usize as the build compiles it: a panic with overflow checks,
\* wrap-around without.
usize_sub(build, a, b) ==
    IF a >= b THEN Ok(a - b)
    ELSE IF build = "debug" THEN Panic("attempt to subtract with overflow")
    ELSE Ok((a - b) % (usize_MAX + 1))

\* String::len: the length in bytes.
RECURSIVE len(_)
len(s) == IF s = <<>> THEN 0 ELSE utf8_len(s[1]) + len(Tail(s))

\* The characters that make up the first n bytes of s, n a char boundary.
RECURSIVE byte_prefix(_, _)
byte_prefix(s, n) ==
    IF n = 0 \/ s = <<>> THEN <<>>
    ELSE <<s[1]>> \o byte_prefix(Tail(s), n - utf8_len(s[1]))

\* String::truncate(new_len): no effect when new_len is beyond the length,
\* a panic when it is not on a char boundary.
truncate(s, new_len) ==
    IF new_len <= len(s) THEN
        IF ~is_char_boundary(s, new_len)
        THEN Panic("assertion failed: self.is_char_boundary(new_len)")
        ELSE Ok(byte_prefix(s, new_len))
    ELSE Ok(s)

\* std::io::Error of the given kind.
io_Error(kind) == [io_error |-> kind]

\* The number of characters up to and including the first line feed, or
\* all of them when there is none.
RECURSIVE line_end(_)
line_end(s) ==
    IF s = <<>> THEN 0
    ELSE IF s[1] = LF THEN 1
    ELSE 1 + line_end(Tail(s))

\* Stdin::read_line(&mut line) on an empty line: the bytes up to and
\* including the line feed or up to the end of input are consumed and, when
\* they are UTF-8, appended to the line.
read_line(stdin) ==
    LET n     == line_end(stdin)
        taken == SubSeq(stdin, 1, n)
    IN  [rest |-> SubSeq(stdin, n + 1, Len(stdin)),
         res  |-> IF from_utf8(taken).ok THEN Ok(taken)
                  ELSE Err(io_Error("InvalidData"))]

\* interactive_text(prompt) with io = [build, flush, stdin]: what is left
\* of standard input, what was printed, and the Result.
interactive_text(prompt, io) ==
    IF ~io.flush.ok
    THEN [stdin |-> io.stdin, printed |-> <<>>, res |-> io.flush]
    ELSE
    LET r == read_line(io.stdin)
    IN  IF ~r.res.ok THEN [stdin |-> r.rest, printed |-> prompt, res |-> r.res]
        ELSE
        LET line     == unwrap(r.res.val)
            line_len == len(line)
            new_len  == usize_sub(io.build, line_len, 1)
        IN  IF ~new_len.ok
            THEN [stdin |-> r.rest, printed |-> prompt, res |-> new_len]
            ELSE [stdin |-> r.rest, printed |-> prompt,
                  res |-> truncate(line, unwrap(new_len.val))]

----------------------------------------------------------------------------
(* interactive_text called line after line on one standard input           *)

MaxStdinLen == 3

StdinChars == {"a", LF, TwoByteChar, NonUtf8Byte}

StdinTexts == UNION { [1..n -> StdinChars] : n \in 0..MaxStdinLen }

FlushOutcomes == {Ok(Unit), Err(io_Error("BrokenPipe"))}

Str_prompt == <<"?">>

\* rin is the build and what is left of standard input; rout is the last
\* call: the flush outcome it met, standard input before it and what
\* interactive_text made of it.
InitInteractive ==
    /\ ClientIdle
    /\ rin \in [build : Builds, stdin : StdinTexts]
    /\ rout = None

InteractiveText ==
    /\ IF rout = None THEN TRUE ELSE ~panicked(unwrap(rout).out.res)
    /\ \E flush \in FlushOutcomes :
           LET io  == [build |-> rin.build, flush |-> flush, stdin |-> rin.stdin]
               out == interactive_text(Str_prompt, io)
           IN  /\ rout' = Some([io |-> io, out |-> out])
               /\ rin' = [rin EXCEPT !.stdin = out.stdin]
    /\ UNCHANGED clientVars

NextInteractive == InteractiveText

SpecInteractive == InitInteractive /\ [][NextInteractive]_vars

----------------------------------------------------------------------------
(* C25: the line without its terminator                                    *)

\* The text without the line feed that ends it, if one does.
without_terminator(s) ==
    IF s = <<>> THEN s
    ELSE IF s[Len(s)] = LF THEN SubSeq(s, 1, Len(s) - 1) ELSE s

\* The last call flushed the prompt and read a line of UTF-8, or met the
\* end of input.
LineRead ==
    /\ rout # None
    /\ unwrap(rout).io.flush.ok
    /\ read_line(unwrap(rout).io.stdin).res.ok

\* C25: interactive_text returns the line it read without its line feed
\* and with nothing else removed: at the end of input it returns the empty
\* string and does not fail on `line_len - 1`, and a last line that no line
\* feed ends is returned whole.
C25_ReturnsLineWithoutTerminator ==
    LineRead =>
        LET line == unwrap(read_line(unwrap(rout).io.stdin).res.val)
            res  == unwrap(rout).out.res
        IN  /\ ~panicked(res)
            /\ res.ok
            /\ res.val = Some(without_terminator(line))

============================================================================
